---- MODULE Spec2Model ----
(***************************************************************************)
(* Cursor-based byte buffers: Buffer (the cursor), ByteBuffer (the cursor  *)
(* wrapper) and CloneByteBuffer (cursor + owned byte vector + offset).     *)
(* Every method is an operator that returns a call record                  *)
(*   [ok, err, self, ret]                                                  *)
(* ok = FALSE is a panic, err its message, self the receiver as the call   *)
(* leaves it (also when it panics) and ret the value returned.             *)
(***************************************************************************)
EXTENDS Integers, Sequences, FiniteSets, TLC

VARIABLES bb, cap0, views, origin, ext, last, pc, written, got

vars == <<bb, cap0, views, origin, ext, last, pc, written, got>>

(* ------------------------------ bounds -------------------------------- *)

\* largest capacity of a buffer the model constructs
MaxCap == 2
\* largest byte value the model writes (a u8 holds 0..255)
MaxByte == 1
\* length of the external Vec<u8> of get_buf / put_buf
ExtLen == 2

Byte == 0..MaxByte
\* integer arguments of the calls: every in-range value and one beyond each end
Args == -1..(MaxCap + 1)
\* mark arguments of the constructors reach below -1 too
MarkArgs == -2..(MaxCap + 1)

(* --------------------------- i32 arithmetic --------------------------- *)

\* i32::MAX
MaxI32 == 2147483647
MinI32 == -MaxI32 - 1

\* a + b and a - b on i32 as a release build wraps them (mod 2^32), computed
\* without leaving the i32 range
add32(a, b) ==
    IF a > 0 /\ b > 0 /\ b > MaxI32 - a THEN (a - MaxI32 - 1) + (b - MaxI32 - 1)
    ELSE IF a < 0 /\ b < 0 /\ b < MinI32 - a THEN (a + MaxI32 + 1) + (b + MaxI32 + 1)
    ELSE a + b

sub32(a, b) ==
    IF b < 0 /\ a > MaxI32 + b THEN (a - MaxI32 - 1) - (b + MaxI32 + 1)
    ELSE IF b > 0 /\ a < MinI32 + b THEN (a + MaxI32 + 1) - (b - MaxI32 - 1)
    ELSE a - b

\* (a as usize) < (b as usize) for i32 a and b: the cast sign-extends, so a
\* negative value is larger than every value that is not negative
usizeLt(a, b) == IF (a < 0) = (b < 0) THEN a < b ELSE b < 0

(* ------------------------------ Buffer -------------------------------- *)

Ok(s, r) == [ok |-> TRUE, err |-> "", self |-> s, ret |-> r]
Panic(s, msg) == [ok |-> FALSE, err |-> msg, self |-> s, ret |-> -1]

default == [mark |-> -1, position |-> 0, limit |-> 0, cap |-> 0]

remaining(b) == sub32(b.limit, b.position)

\* reset as it would be if it left the position where it was
reset_keeps_position(b) ==
    IF b.mark < 0 THEN Panic(b, "invalid mark!")
    ELSE Ok(b, 0)

reset(b) ==
    IF b.mark < 0 THEN Panic(b, "invalid mark!")
    ELSE Ok([b EXCEPT !.position = b.mark], 0)

\* limit_ as it would be without the position clamp of buffer.rs:72-74
limit_noclamp(b, limit) ==
    IF limit > b.cap \/ limit < 0 THEN Panic(b, "illegal argument!")
    ELSE LET b1 == [b EXCEPT !.limit = limit]
             b3 == IF b1.mark > b1.limit THEN [b1 EXCEPT !.mark = -1] ELSE b1
         IN  Ok(b3, 0)

\* limit_ as it would be if it kept a mark above the new limit
limit_keeps_mark(b, limit) ==
    IF limit > b.cap \/ limit < 0 THEN Panic(b, "illegal argument!")
    ELSE LET b1 == [b EXCEPT !.limit = limit]
             b2 == IF b1.position > b1.limit THEN [b1 EXCEPT !.position = b1.limit] ELSE b1
         IN  Ok(b2, 0)

limit_(b, limit) ==
    IF limit > b.cap \/ limit < 0 THEN Panic(b, "illegal argument!")
    ELSE LET b1 == [b EXCEPT !.limit = limit]
             b2 == IF b1.position > b1.limit THEN [b1 EXCEPT !.position = b1.limit] ELSE b1
             b3 == IF b2.mark > b2.limit THEN [b2 EXCEPT !.mark = -1] ELSE b2
         IN  Ok(b3, 0)

\* position_ as it would be if it stored the position before it checked it
position_set_first(b, position) ==
    IF position > b.limit \/ position < 0
    THEN Panic([b EXCEPT !.position = position], "illegal argument!")
    ELSE LET b1 == [b EXCEPT !.position = position]
             b2 == IF b1.mark > b1.position THEN [b1 EXCEPT !.mark = -1] ELSE b1
         IN  Ok(b2, 0)

\* position_ as it would be if it kept a mark above the new position
position_keeps_mark(b, position) ==
    IF position > b.limit \/ position < 0 THEN Panic(b, "illegal argument!")
    ELSE Ok([b EXCEPT !.position = position], 0)

position_(b, position) ==
    IF position > b.limit \/ position < 0 THEN Panic(b, "illegal argument!")
    ELSE LET b1 == [b EXCEPT !.position = position]
             b2 == IF b1.mark > b1.position THEN [b1 EXCEPT !.mark = -1] ELSE b1
         IN  Ok(b2, 0)

mark_(b) == Ok([b EXCEPT !.mark = b.position], 0)

next_get_index(b) ==
    IF b.position >= b.limit THEN Panic(b, "buffer under flow!")
    ELSE Ok([b EXCEPT !.position = add32(b.position, 1)], b.position)

\* next_put_index as it would be if the capacity, not the limit, ended the
\* room to write
next_put_index_to_cap(b) ==
    IF b.position >= b.cap THEN Panic(b, "buffer over flow!")
    ELSE Ok([b EXCEPT !.position = add32(b.position, 1)], b.position)

next_put_index(b) ==
    IF b.position >= b.limit THEN Panic(b, "buffer over flow!")
    ELSE Ok([b EXCEPT !.position = add32(b.position, 1)], b.position)

next_get_index_nb(b, nb) ==
    IF sub32(b.limit, b.position) < nb THEN Panic(b, "buffer under flow!")
    ELSE Ok([b EXCEPT !.position = add32(b.position, nb)], b.position)

next_put_index_nb(b, nb) ==
    IF sub32(b.limit, b.position) < nb THEN Panic(b, "buffer over flow!")
    ELSE Ok([b EXCEPT !.position = add32(b.position, nb)], b.position)

check_index_nb(b, i, nb) ==
    IF i < 0 \/ nb >= sub32(b.limit, i) THEN Panic(b, "index out of bound")
    ELSE Ok(b, i)

\* check_index as it would be if it accepted the limit itself as an index
check_index_upto_limit(b, i) ==
    IF i < 0 \/ i > b.limit THEN Panic(b, "index out of bound")
    ELSE Ok(b, i)

check_index(b, i) ==
    IF i < 0 \/ i >= b.limit THEN Panic(b, "index out of bound")
    ELSE Ok(b, i)

\* check_bounds as it would be without the (off + len) operand of the or
check_bounds_no_sum(off, len, size) ==
    IF \/ off < 0
       \/ len < 0
       \/ sub32(size, add32(off, len)) < 0
    THEN Panic(default, "index out of bounds!")
    ELSE Ok(default, 0)

\* (off | len | (off + len) | (size - (off + len))) < 0: the bitwise or of i32
\* values is negative exactly when one of them is
check_bounds(off, len, size) ==
    IF \/ off < 0
       \/ len < 0
       \/ add32(off, len) < 0
       \/ sub32(size, add32(off, len)) < 0
    THEN Panic(default, "index out of bounds!")
    ELSE Ok(default, 0)

clear(b) == Ok([b EXCEPT !.position = 0, !.limit = b.cap, !.mark = -1], 0)

Buffer_truncate(b) ==
    Ok([mark |-> -1, position |-> 0, limit |-> 0, cap |-> 0], 0)

\* flip as it would be if it left the limit where it was, as rewind does
flip_keeps_limit(b) == Ok([b EXCEPT !.position = 0, !.mark = -1], 0)

flip(b) == Ok([b EXCEPT !.limit = b.position, !.position = 0, !.mark = -1], 0)

\* rewind as it would be if it went back by one position only
rewind_one_back(b) ==
    Ok([b EXCEPT !.position = IF b.position > 0 THEN b.position - 1 ELSE 0,
                 !.mark = -1], 0)

rewind(b) == Ok([b EXCEPT !.position = 0, !.mark = -1], 0)

Buffer_new_(mark, position, limit, cap) ==
    IF cap < 0 THEN Panic(default, "illegal argument")
    ELSE IF mark > 0 /\ mark > position THEN Panic(default, "illegal argument")
    ELSE Ok([mark |-> mark, position |-> position, limit |-> limit, cap |-> cap], 0)

init(b) ==
    LET t == Buffer_new_(b.mark, b.position, b.limit, b.cap)
    IN  IF ~t.ok THEN Panic(b, t.err)
        ELSE LET r1 == limit_(b, b.limit)
             IN  IF ~r1.ok THEN r1
                 ELSE position_(r1.self, r1.self.position)

ByteBuffer_new_(mark, pos, limit, cap) ==
    LET r == Buffer_new_(mark, pos, limit, cap)
    IN  IF ~r.ok THEN r ELSE init(r.self)

(* --------------------------- CloneByteBuffer --------------------------- *)

zeros(n) == [j \in 1..n |-> 0]

\* the derived Clone of CloneByteBuffer: RefCell<Vec<u8>>::clone copies the vector
clone(self) == [buffer |-> self.buffer, hb |-> self.hb, offset |-> self.offset]

\* a cursor method that CloneByteBuffer hands to its ByteBuffer, which hands it
\* to its Buffer; r is the Buffer's call record
delegate(self, r) == [r EXCEPT !.self = [self EXCEPT !.buffer = r.self]]

CloneByteBuffer_position_(self, n) == delegate(self, position_(self.buffer, n))

CloneByteBuffer_truncate(self) == delegate(self, clear(self.buffer))

CloneByteBuffer_new(buf, mark, pos, limit, cap, off) ==
    LET r == ByteBuffer_new_(mark, pos, limit, cap)
    IN  IF ~r.ok THEN r
        ELSE Ok([buffer |-> r.self, hb |-> buf, offset |-> 0], 0)

\* new2 as it would be if it allocated limit bytes and not cap bytes
new2_limit_bytes(cap, limit) ==
    LET r == ByteBuffer_new_(-1, 0, limit, cap)
    IN  IF ~r.ok THEN r
        ELSE Ok([buffer |-> r.self, hb |-> zeros(limit), offset |-> 0], 0)

new2(cap, limit) ==
    LET r == ByteBuffer_new_(-1, 0, limit, cap)
    IN  IF ~r.ok THEN r
        ELSE Ok([buffer |-> r.self, hb |-> zeros(cap), offset |-> 0], 0)

new3(buf, off, len) ==
    LET r == ByteBuffer_new_(-1, off, add32(off, len), Len(buf))
    IN  IF ~r.ok THEN r
        ELSE Ok([buffer |-> r.self, hb |-> buf, offset |-> 0], 0)

\* slice as it would be if the new offset forgot the receiver's own offset
slice_local_offset(self) ==
    LET r == ByteBuffer_new_(-1, 0, remaining(self.buffer), remaining(self.buffer))
    IN  IF ~r.ok THEN Panic(self, r.err)
        ELSE Ok(self, [buffer |-> r.self,
                       hb |-> clone(self).hb,
                       offset |-> self.buffer.position])

\* slice as it would be if it consumed what it hands out, moving the
\* receiver's position to its limit
slice_consuming(self) ==
    LET r == ByteBuffer_new_(-1, 0, remaining(self.buffer), remaining(self.buffer))
    IN  IF ~r.ok THEN Panic(self, r.err)
        ELSE Ok([self EXCEPT !.buffer.position = self.buffer.limit],
                [buffer |-> r.self,
                 hb |-> clone(self).hb,
                 offset |-> add32(self.buffer.position, self.offset)])

\* slice as it would be if the new view took the receiver's capacity, as
\* CloneByteBuffer::new lets a caller do
slice_full_capacity(self) ==
    LET r == ByteBuffer_new_(-1, 0, remaining(self.buffer), self.buffer.cap)
    IN  IF ~r.ok THEN Panic(self, r.err)
        ELSE Ok(self, [buffer |-> r.self,
                       hb |-> clone(self).hb,
                       offset |-> add32(self.buffer.position, self.offset)])

\* slice(&self): the receiver is left as it was, the new view is returned
slice(self) ==
    LET r == ByteBuffer_new_(-1, 0, remaining(self.buffer), remaining(self.buffer))
    IN  IF ~r.ok THEN Panic(self, r.err)
        ELSE Ok(self, [buffer |-> r.self,
                       hb |-> clone(self).hb,
                       offset |-> add32(self.buffer.position, self.offset)])

\* duplicate(self): the receiver is moved into the view returned
duplicate(self) == [buffer |-> self.buffer, hb |-> self.hb, offset |-> self.offset]

ix(self, i) == add32(i, self.offset)

get_idx_(self, i) ==
    LET k == ix(self, i)
    IN  IF k < 0 \/ k >= Len(self.hb) THEN Panic(self, "index out of bounds: Vec")
        ELSE Ok(self, self.hb[k + 1])

get(self) ==
    LET r == next_get_index(self.buffer)
    IN  IF ~r.ok THEN Panic(self, r.err)
        ELSE get_idx_([self EXCEPT !.buffer = r.self], r.ret)

get_i(self, i) ==
    LET r == check_index(self.buffer, i)
    IN  IF ~r.ok THEN Panic(self, r.err)
        ELSE get_idx_(self, r.ret)

put_idx_(self, x, idx) ==
    LET k == ix(self, idx)
    IN  IF k < 0 \/ k >= Len(self.hb) THEN Panic(self, "index out of bounds: Vec")
        ELSE Ok([self EXCEPT !.hb[k + 1] = x], 0)

put_i(self, x, i) ==
    LET r == check_index(self.buffer, i)
    IN  IF ~r.ok THEN Panic(self, r.err)
        ELSE put_idx_(self, x, r.ret)

put(self, x) ==
    LET r == next_put_index(self.buffer)
    IN  IF ~r.ok THEN Panic(self, r.err)
        ELSE put_i([self EXCEPT !.buffer = r.self], x, r.ret)

\* the copy loops of get_buf, put_buf and put_buffer: element idx of the n to
\* copy goes from from[s + idx] to to[d + idx] (0-based); an index outside a
\* vector (a negative start is a huge usize) panics and leaves what was copied
\* so far
RECURSIVE copy(_, _, _, _, _, _)
copy(to, d, from, s, idx, n) ==
    IF idx >= n THEN [ok |-> TRUE, to |-> to]
    ELSE IF s < 0 \/ d < 0 \/ s + idx >= Len(from) \/ d + idx >= Len(to)
    THEN [ok |-> FALSE, to |-> to]
    ELSE copy([to EXCEPT ![d + idx + 1] = from[s + idx + 1]], d, from, s, idx + 1, n)

\* get_buf as it would be if it copied before it compared length with remaining()
get_buf_copy_first(self, dst, offset, length) ==
    LET c == check_bounds(offset, length, Len(dst))
    IN  IF ~c.ok THEN [Panic(self, c.err) EXCEPT !.ret = dst]
        ELSE LET src_start == ix(self, self.buffer.position)
                 m == copy(dst, offset, self.hb, src_start, 0, length)
             IN  IF length > remaining(self.buffer)
                 THEN [Panic(self, "buffer under flow") EXCEPT !.ret = m.to]
                 ELSE IF ~m.ok THEN [Panic(self, "index out of bounds: Vec") EXCEPT !.ret = m.to]
                 ELSE [CloneByteBuffer_position_(self, add32(self.buffer.position, length))
                          EXCEPT !.ret = m.to]

\* get_buf as it would be if it copied from the start of the view and not
\* from its position
get_buf_from_start(self, dst, offset, length) ==
    LET c == check_bounds(offset, length, Len(dst))
    IN  IF ~c.ok THEN [Panic(self, c.err) EXCEPT !.ret = dst]
        ELSE IF length > remaining(self.buffer)
        THEN [Panic(self, "buffer under flow") EXCEPT !.ret = dst]
        ELSE LET src_start == ix(self, 0)
                 m == copy(dst, offset, self.hb, src_start, 0, length)
             IN  IF ~m.ok THEN [Panic(self, "index out of bounds: Vec") EXCEPT !.ret = m.to]
                 ELSE [CloneByteBuffer_position_(self, add32(self.buffer.position, length))
                          EXCEPT !.ret = m.to]

\* the call records of get_buf and put_buf also carry the external vector
get_buf(self, dst, offset, length) ==
    LET c == check_bounds(offset, length, Len(dst))
    IN  IF ~c.ok THEN [Panic(self, c.err) EXCEPT !.ret = dst]
        ELSE IF length > remaining(self.buffer)
        THEN [Panic(self, "buffer under flow") EXCEPT !.ret = dst]
        ELSE LET src_start == ix(self, self.buffer.position)
                 m == copy(dst, offset, self.hb, src_start, 0, length)
             IN  IF ~m.ok THEN [Panic(self, "index out of bounds: Vec") EXCEPT !.ret = m.to]
                 ELSE [CloneByteBuffer_position_(self, add32(self.buffer.position, length))
                          EXCEPT !.ret = m.to]

\* put_buf as it would be if it copied from the start of the vector and not
\* from offset
put_buf_from_start(self, src, offset, length) ==
    LET c == check_bounds(offset, length, Len(src))
    IN  IF ~c.ok THEN [Panic(self, c.err) EXCEPT !.ret = src]
        ELSE IF length > remaining(self.buffer)
        THEN [Panic(self, "buffer under flow") EXCEPT !.ret = src]
        ELSE LET dst_start == ix(self, self.buffer.position)
                 m == copy(self.hb, dst_start, src, 0, 0, length)
                 s1 == [self EXCEPT !.hb = m.to]
             IN  IF ~m.ok THEN [Panic(s1, "index out of bounds: Vec") EXCEPT !.ret = src]
                 ELSE [CloneByteBuffer_position_(s1, add32(s1.buffer.position, length))
                          EXCEPT !.ret = src]

put_buf(self, src, offset, length) ==
    LET c == check_bounds(offset, length, Len(src))
    IN  IF ~c.ok THEN [Panic(self, c.err) EXCEPT !.ret = src]
        ELSE IF length > remaining(self.buffer)
        THEN [Panic(self, "buffer under flow") EXCEPT !.ret = src]
        ELSE LET dst_start == ix(self, self.buffer.position)
                 m == copy(self.hb, dst_start, src, offset, 0, length)
                 s1 == [self EXCEPT !.hb = m.to]
             IN  IF ~m.ok THEN [Panic(s1, "index out of bounds: Vec") EXCEPT !.ret = src]
                 ELSE [CloneByteBuffer_position_(s1, add32(s1.buffer.position, length))
                          EXCEPT !.ret = src]

\* put_buffer as it would be if it left the position of its argument alone
put_buffer_source_kept(self, heap_buffer) ==
    LET n == remaining(heap_buffer.buffer)
    IN  IF usizeLt(remaining(self.buffer), n)
        THEN [Panic(self, "buffer overflow") EXCEPT !.ret = heap_buffer]
        ELSE LET src_start == ix(heap_buffer, heap_buffer.buffer.position)
                 dst_start == ix(self, self.buffer.position)
                 count == IF n < 0 THEN Len(heap_buffer.hb) + 1 ELSE n
                 m == copy(self.hb, dst_start, heap_buffer.hb, src_start, 0, count)
                 s1 == [self EXCEPT !.hb = m.to]
             IN  IF ~m.ok THEN [Panic(s1, "index out of bounds: Vec") EXCEPT !.ret = heap_buffer]
                 ELSE [CloneByteBuffer_position_(s1, add32(s1.buffer.position, n))
                          EXCEPT !.ret = heap_buffer]

\* put_buffer(&mut self, heap_buffer): self is the receiver as the call leaves
\* it and ret the argument as the call leaves it
put_buffer(self, heap_buffer) ==
    LET n == remaining(heap_buffer.buffer)
    IN  IF usizeLt(remaining(self.buffer), n)
        THEN [Panic(self, "buffer overflow") EXCEPT !.ret = heap_buffer]
        ELSE LET src_start == ix(heap_buffer, heap_buffer.buffer.position)
                 dst_start == ix(self, self.buffer.position)
                 \* a negative n is a huge usize: the loop runs off the source
                 count == IF n < 0 THEN Len(heap_buffer.hb) + 1 ELSE n
                 m == copy(self.hb, dst_start, heap_buffer.hb, src_start, 0, count)
                 s1 == [self EXCEPT !.hb = m.to]
             IN  IF ~m.ok THEN [Panic(s1, "index out of bounds: Vec") EXCEPT !.ret = heap_buffer]
                 ELSE LET r1 == CloneByteBuffer_position_(heap_buffer,
                                    add32(heap_buffer.buffer.position, n))
                          r2 == CloneByteBuffer_position_(s1, add32(s1.buffer.position, n))
                      IN  IF ~r1.ok THEN [Panic(s1, r1.err) EXCEPT !.ret = r1.self]
                          ELSE [r2 EXCEPT !.ret = r1.self]

(* ------------------------- the last call made -------------------------- *)

\* the method, the view it was called on, how it ended, and (of a call that
\* returned) its arguments and the value it returned
Call(op, v, a, r, ret) ==
    [op |-> op, v |-> v, a |-> IF r.ok THEN a ELSE <<>>, ok |-> r.ok, err |-> r.err,
     ret |-> IF r.ok THEN ret ELSE -1]

NoCall == [op |-> "none", v |-> "none", a |-> <<>>, ok |-> TRUE, err |-> "", ret |-> -1]

\* the calls are logged in last, except in the specifications of several
\* views (pc = "views"), whose claims are about the views alone
Log(c) == IF pc = "views" THEN NoCall ELSE c

(* --------------- SpecBuf: one ByteBuffer and its cursor ---------------- *)

\* no CloneByteBuffer exists
NoViews == <<>>
NoOrigin == [v \in {"slice", "dup"} |-> "none"]

\* the cursor invariant of the data model
CursorInv(b) ==
    /\ (b.mark = -1 \/ (0 <= b.mark /\ b.mark <= b.position))
    /\ 0 <= b.position
    /\ b.position <= b.limit
    /\ b.limit <= b.cap

\* every ByteBuffer that ByteBuffer::new_ returns in a state obeying the cursor invariant
InitBuf ==
    /\ \E mark \in MarkArgs, pos \in Args, limit \in Args, cap \in 0..MaxCap :
          LET r == ByteBuffer_new_(mark, pos, limit, cap)
          IN  /\ r.ok
              /\ CursorInv(r.self)
              /\ bb = r.self
              /\ cap0 = cap
    /\ views = NoViews
    /\ origin = NoOrigin
    /\ ext = <<>>
    /\ last = NoCall
    /\ pc = "buf"
    /\ written = <<>>
    /\ got = <<>>

BufStep(op, a, r) ==
    /\ bb' = r.self
    /\ last' = Log(Call(op, "bb", a, r, -1))
    /\ UNCHANGED <<cap0, views, origin, ext, pc, written, got>>

BufReset == BufStep("reset", <<>>, reset(bb))
BufLimit == \E n \in Args : BufStep("limit_", <<n>>, limit_(bb, n))
BufPosition == \E n \in Args : BufStep("position_", <<n>>, position_(bb, n))
BufMark == BufStep("mark_", <<>>, mark_(bb))
BufClear == BufStep("clear", <<>>, clear(bb))
BufFlip == BufStep("flip", <<>>, flip(bb))
BufRewind == BufStep("rewind", <<>>, rewind(bb))
BufTruncate == BufStep("truncate", <<>>, Buffer_truncate(bb))

NextBuf ==
    \/ BufReset
    \/ BufLimit
    \/ BufPosition
    \/ BufMark
    \/ BufClear
    \/ BufFlip
    \/ BufRewind
    \/ BufTruncate

SpecBuf == InitBuf /\ [][NextBuf]_vars

\* C1: from every cursor state that obeys the invariant, after every call of
\* mark_, reset, limit_, position_, clear, flip and rewind, failed or not, the
\* cursor obeys the invariant: mark is -1 or 0 <= mark <= position, and
\* 0 <= position <= limit <= cap
C1_InvariantPreserved == CursorInv(bb)

\* a limit_ call that returned and left the position at a limit below the capacity
C1_Witness ==
    /\ last.op = "limit_"
    /\ last.ok
    /\ bb.position = bb.limit
    /\ bb.limit > 0
    /\ bb.limit < bb.cap

\* C10: cap() is the value it had when the buffer was constructed, whatever
\* is called on the buffer, truncate() included
C10_CapacityFixed == bb.cap = cap0

\* C18: clear() leaves position 0, limit = capacity and mark -1, and a clear()
\* that follows a clear() immediately changes nothing; rewind() leaves
\* position 0, mark -1 and the limit where it was, and a rewind() that follows
\* a rewind() immediately changes nothing
C18_ClearRewindIdempotent ==
    [][/\ BufClear =>
            /\ bb' = [mark |-> -1, position |-> 0, limit |-> bb.cap, cap |-> bb.cap]
            /\ last.op = "clear" => bb' = bb
       /\ BufRewind =>
            /\ bb' = [mark |-> -1, position |-> 0, limit |-> bb.limit, cap |-> bb.cap]
            /\ last.op = "rewind" => bb' = bb]_vars

\* a rewind has left position 0 under a limit that is neither 0 nor the
\* capacity
C18_Witness ==
    /\ last.op = "rewind"
    /\ bb.position = 0
    /\ bb.mark = -1
    /\ bb.limit > 0
    /\ bb.limit < bb.cap

\* C22: limit_(n) fails with illegal-argument exactly when n < 0 or
\* n > capacity; otherwise the limit is n, the position is n if it was above
\* n and else as it was, the mark is -1 if it was above n and else as it was,
\* and the capacity is as it was
C22_LimitExact ==
    [][last'.op = "limit_" =>
         \A n \in Args :
            BufStep("limit_", <<n>>, limit_(bb, n)) =>
               IF n < 0 \/ n > bb.cap
               THEN ~last'.ok /\ last'.err = "illegal argument!"
               ELSE /\ last'.ok
                    /\ bb' = [limit |-> n,
                              position |-> IF bb.position > n THEN n ELSE bb.position,
                              mark |-> IF bb.mark > n THEN -1 ELSE bb.mark,
                              cap |-> bb.cap]]_vars

\* limit_(0) has returned on a buffer of capacity MaxCap
C22_Witness ==
    /\ last.op = "limit_"
    /\ last.ok
    /\ last.a = <<0>>
    /\ bb = [mark |-> -1, position |-> 0, limit |-> 0, cap |-> MaxCap]

\* C23: position_(n) fails with illegal-argument exactly when n < 0 or
\* n > limit; otherwise the position is n, the mark is -1 if it was above n
\* and else as it was, and limit and capacity are as they were
C23_PositionExact ==
    [][last'.op = "position_" =>
         \A n \in Args :
            BufStep("position_", <<n>>, position_(bb, n)) =>
               IF n < 0 \/ n > bb.limit
               THEN ~last'.ok /\ last'.err = "illegal argument!"
               ELSE /\ last'.ok
                    /\ bb' = [position |-> n,
                              mark |-> IF bb.mark > n THEN -1 ELSE bb.mark,
                              limit |-> bb.limit,
                              cap |-> bb.cap]]_vars

\* position_(1) has returned under a mark at 1 or below it
C23_Witness ==
    /\ last.op = "position_"
    /\ last.ok
    /\ last.a = <<1>>
    /\ bb.position = 1
    /\ bb.mark >= 0
    /\ bb.limit = MaxCap


(* --- the CloneByteBuffer specifications: Spec, SpecDup and SpecBulk ---- *)

\* the byte of view s at its view-local index i
ByteAt(s, i) == s.hb[s.offset + i + 1]

\* the byte vectors of length n
Bytes(n) == [1..n -> Byte]

\* "buffer" is a view that new2 or new3 returned
InitView ==
    /\ \/ \E cap \in 0..MaxCap, limit \in Args :
             LET r == new2(cap, limit)
             IN  r.ok /\ views = [v \in {"buffer"} |-> r.self]
       \/ \E n \in 0..MaxCap : \E buf \in Bytes(n) : \E off \in Args, len \in Args :
             LET r == new3(buf, off, len)
             IN  r.ok /\ views = [v \in {"buffer"} |-> r.self]
    /\ origin = NoOrigin
    /\ bb = default
    /\ cap0 = 0
    /\ last = NoCall
    /\ written = <<>>
    /\ got = <<>>

Live == DOMAIN views

\* a call on view v as it would be if the views shared one vector: the bytes
\* the call leaves in v are the bytes of every view
ViewStep_shared(op, v, a, r, ret) ==
    /\ views' = [w \in Live |->
                    IF w = v THEN r.self ELSE [views[w] EXCEPT !.hb = r.self.hb]]
    /\ last' = Log(Call(op, v, a, r, ret))
    /\ UNCHANGED <<bb, cap0, origin, ext, pc, written, got>>

\* view v is left as the call record r says
ViewStep(op, v, a, r, ret) ==
    /\ views' = [views EXCEPT ![v] = r.self]
    /\ last' = Log(Call(op, v, a, r, ret))
    /\ UNCHANGED <<bb, cap0, origin, ext, pc, written, got>>

Reset(v) == ViewStep("reset", v, <<>>, delegate(views[v], reset(views[v].buffer)), -1)
Limit(v, n) ==
    ViewStep("limit_", v, <<n>>, delegate(views[v], limit_(views[v].buffer, n)), -1)
Position(v, n) ==
    ViewStep("position_", v, <<n>>, CloneByteBuffer_position_(views[v], n), -1)
Mark(v) == ViewStep("mark_", v, <<>>, delegate(views[v], mark_(views[v].buffer)), -1)
Clear(v) == ViewStep("clear", v, <<>>, delegate(views[v], clear(views[v].buffer)), -1)
Truncate(v) == ViewStep("truncate", v, <<>>, CloneByteBuffer_truncate(views[v]), -1)
Flip(v) == ViewStep("flip", v, <<>>, delegate(views[v], flip(views[v].buffer)), -1)
Rewind(v) == ViewStep("rewind", v, <<>>, delegate(views[v], rewind(views[v].buffer)), -1)

Get(v) == LET r == get(views[v]) IN ViewStep("get", v, <<>>, r, r.ret)
GetI(v, i) == LET r == get_i(views[v], i) IN ViewStep("get_i", v, <<i>>, r, r.ret)
Put(v, x) == ViewStep("put", v, <<x>>, put(views[v], x), -1)
PutI(v, x, i) == ViewStep("put_i", v, <<x, i>>, put_i(views[v], x, i), -1)

\* ext is the caller's Vec<u8>
GetBuf(v, off, len) ==
    LET r == get_buf(views[v], ext, off, len)
    IN  /\ views' = [views EXCEPT ![v] = r.self]
        /\ ext' = r.ret
        /\ last' = Log(Call("get_buf", v, <<off, len>>, r, -1))
        /\ UNCHANGED <<bb, cap0, origin, pc, written, got>>

PutBuf(v, off, len) ==
    LET r == put_buf(views[v], ext, off, len)
    IN  /\ views' = [views EXCEPT ![v] = r.self]
        /\ ext' = r.ret
        /\ last' = Log(Call("put_buf", v, <<off, len>>, r, -1))
        /\ UNCHANGED <<bb, cap0, origin, pc, written, got>>

\* v.put_buffer(&mut w): the two &mut borrows are of two different views
PutBuffer(v, w) ==
    LET r == put_buffer(views[v], views[w])
    IN  /\ views' = [views EXCEPT ![v] = r.self, ![w] = r.ret]
        /\ last' = Log(Call("put_buffer", v, <<w>>, r, -1))
        /\ UNCHANGED <<bb, cap0, origin, ext, pc, written, got>>

\* let slice = p.slice(): when p is "slice" itself the new view takes its
\* name and its parent is no longer in scope
Slice(p) ==
    LET r == slice(views[p])
    IN  /\ views' = IF r.ok
                    THEN [v \in Live \cup {"slice"} |->
                            IF v = "slice" THEN r.ret
                            ELSE IF v = p THEN r.self ELSE views[v]]
                    ELSE [views EXCEPT ![p] = r.self]
        /\ origin' = IF r.ok
                     THEN [origin EXCEPT !["slice"] = IF p = "slice" THEN "none" ELSE p]
                     ELSE origin
        /\ last' = Log(Call("slice", p, <<>>, r, -1))
        /\ UNCHANGED <<bb, cap0, ext, pc, written, got>>

\* let dup = p.clone().duplicate(): duplicate(self) consumes its receiver, so
\* the original stays usable only when it is cloned first
Duplicate(p) ==
    /\ views' = [v \in Live \cup {"dup"} |->
                    IF v = "dup" THEN duplicate(clone(views[p])) ELSE views[v]]
    /\ origin' = [origin EXCEPT !["dup"] = p]
    /\ last' = Log(Call("duplicate", p, <<>>, Ok(views[p], 0), -1))
    /\ UNCHANGED <<bb, cap0, ext, pc, written, got>>

\* a call of one of the seven cursor methods, or of truncate, on view v
CursorCall(v) ==
    \/ Reset(v)
    \/ \E n \in Args : Limit(v, n)
    \/ \E n \in Args : Position(v, n)
    \/ Mark(v)
    \/ Clear(v)
    \/ Truncate(v)
    \/ Flip(v)
    \/ Rewind(v)

\* a single-byte get or put on view v
ByteCall(v) ==
    \/ Get(v)
    \/ \E i \in Args : GetI(v, i)
    \/ \E x \in Byte : Put(v, x)
    \/ \E x \in Byte, i \in Args : PutI(v, x, i)

\* a view and its slices
Init == InitView /\ ext = <<>> /\ pc = "views"

Next ==
    \/ \E v \in Live : CursorCall(v)
    \/ \E v \in Live : ByteCall(v)
    \/ \E v \in Live : \E w \in Live \ {v} : PutBuffer(v, w)
    \/ \E p \in Live : Slice(p)

Spec == Init /\ [][Next]_vars

\* the view-local index of the parent that the slice's index k stands for
ParentIndex(k) ==
    (views["slice"].offset - views[origin["slice"]].offset) + k

\* C2: a byte written through the slice at index k, by put or put_i, is then
\* read by the parent at index p + k, p being the parent's position when the
\* slice was taken
C2_SliceAliasing ==
    [][\A x \in Byte, k \in Args :
         ( /\ "slice" \in Live
           /\ origin["slice"] # "none"
           /\ put_i(views["slice"], x, k).ok
           /\ \/ PutI("slice", x, k)
              \/ Put("slice", x) /\ k = views["slice"].buffer.position )
         => LET r == get_i(views'[origin["slice"]], ParentIndex(k))
            IN  r.ok => r.ret = x]_vars

\* C3: slice() returns a view whose offset is the receiver's offset plus its
\* position, whose position is 0, whose limit and capacity are the receiver's
\* remaining(), whose mark is -1 and whose bytes are the receiver's
C3_SliceCursor ==
    [][\A p \in Live :
         Slice(p) =>
            /\ "slice" \in DOMAIN views'
            /\ views'["slice"].offset = views[p].offset + views[p].buffer.position
            /\ views'["slice"].buffer =
                  [mark |-> -1, position |-> 0,
                   limit |-> views[p].buffer.limit - views[p].buffer.position,
                   cap |-> views[p].buffer.limit - views[p].buffer.position]
            /\ views'["slice"].hb = views[p].hb]_vars

\* a slice of one remaining byte taken behind a position that is not 0
C3_Witness ==
    /\ "slice" \in Live
    /\ views["slice"].offset > 0
    /\ views["slice"].buffer = [mark |-> -1, position |-> 0, limit |-> 1, cap |-> 1]

\* C4: slice() leaves its receiver's cursor and offset as they were, and a
\* cursor call or a cursor-advancing or positional get or put on one view
\* leaves the cursor and the offset of every other view as they were
C4_IndependentCursors ==
    [][/\ \A p \in Live \ {"slice"} :
            Slice(p) => /\ views'[p].buffer = views[p].buffer
                        /\ views'[p].offset = views[p].offset
       /\ \A t \in Live :
            (CursorCall(t) \/ ByteCall(t)) =>
               \A v \in Live \ {t} : /\ views'[v].buffer = views[v].buffer
                                     /\ views'[v].offset = views[v].offset]_vars

\* a slice whose position has moved while its parent's position is still
\* where the slice was taken
C4_Witness ==
    /\ "slice" \in Live
    /\ origin["slice"] = "buffer"
    /\ views["slice"].buffer.position > 0
    /\ views["slice"].offset = views["buffer"].offset + views["buffer"].buffer.position
    /\ views["buffer"].buffer.position > 0

NextDup ==
    \/ \E v \in Live : CursorCall(v)
    \/ \E v \in Live : ByteCall(v)
    \/ Duplicate("buffer")

SpecDup == Init /\ [][NextDup]_vars

\* C7: duplicate() returns a view with the cursor, offset and bytes of the
\* original; a cursor call on the duplicate leaves the original's cursor as it
\* was; a byte written through either of the two is read through the other at
\* the same index
C7_DuplicateIndependence ==
    [][/\ Duplicate("buffer") => views'["dup"] = views["buffer"]
       /\ ("dup" \in Live /\ CursorCall("dup")) =>
             views'["buffer"].buffer = views["buffer"].buffer
       /\ \A x \in Byte, i \in Args :
             \A vw \in {<<"dup", "buffer">>, <<"buffer", "dup">>} :
                ( /\ "dup" \in Live
                  /\ put_i(views[vw[1]], x, i).ok
                  /\ PutI(vw[1], x, i) )
                => LET r == get_i(views'[vw[2]], i)
                   IN  r.ok => r.ret = x]_vars

\* a view and the caller's vector of the bulk transfers
InitBulk == InitView /\ ext \in Bytes(ExtLen) /\ pc = "bulk"

NextBulk ==
    \/ CursorCall("buffer")
    \/ ByteCall("buffer")
    \/ \E off \in Args, len \in Args : GetBuf("buffer", off, len)
    \/ \E off \in Args, len \in Args : PutBuf("buffer", off, len)

SpecBulk == InitBulk /\ [][NextBulk]_vars

\* the arguments that get_buf and put_buf must refuse
BadBulk(off, len) ==
    \/ len > views["buffer"].buffer.limit - views["buffer"].buffer.position
    \/ off < 0
    \/ len < 0
    \/ off + len > Len(ext)

\* C8: get_buf and put_buf called with length > remaining(), off < 0,
\* length < 0 or off + length > len(vector) fail, and leave the vector, the
\* view's bytes and the view's position, limit and mark as they were
C8_BoundsRejection ==
    [][last'.op \in {"get_buf", "put_buf"} =>
         \A off \in Args, len \in Args :
            ( /\ BadBulk(off, len)
              /\ GetBuf("buffer", off, len) \/ PutBuf("buffer", off, len) )
            => /\ ~last'.ok
               /\ views' = views
               /\ ext' = ext]_vars

\* a get_buf refused for its length after the position had moved, with bytes
\* in the view that the vector does not hold
C8_Witness ==
    /\ last.op = "get_buf"
    /\ ~last.ok
    /\ last.err = "buffer under flow"
    /\ views["buffer"].buffer.position > 0
    /\ views["buffer"].buffer.limit > views["buffer"].buffer.position
    /\ views["buffer"].hb[views["buffer"].buffer.position + 1] # ext[1]

GoodBulk(off, len) ==
    /\ off >= 0
    /\ len >= 0
    /\ off + len <= Len(ext)
    /\ len <= views["buffer"].buffer.limit - views["buffer"].buffer.position

IsOverflow(e) == e \in {"buffer over flow!", "buffer overflow"}
IsUnderflow(e) == e \in {"buffer under flow!", "buffer under flow"}

\* C14: a put at position = limit, a put_buf of more than remaining() bytes
\* (from a range inside the vector) and a put_buffer of a view with more
\* remaining bytes than the receiver each fail with buffer-overflow, and no
\* put, put_buf or put_buffer fails with buffer-underflow
C14_OverflowOnWrite ==
    [][/\ last'.op = "put" =>
            \A v \in Live : \A x \in Byte :
               (Put(v, x) /\ views[v].buffer.position = views[v].buffer.limit)
               => ~last'.ok /\ IsOverflow(last'.err)
       /\ last'.op = "put_buf" =>
            \A v \in Live : \A off \in Args, len \in Args :
               ( /\ PutBuf(v, off, len)
                 /\ off >= 0 /\ len >= 0 /\ off + len <= Len(ext)
                 /\ len > views[v].buffer.limit - views[v].buffer.position )
               => ~last'.ok /\ IsOverflow(last'.err)
       /\ last'.op = "put_buffer" =>
            \A v \in Live : \A w \in Live \ {v} :
               ( /\ PutBuffer(v, w)
                 /\ views[w].buffer.limit - views[w].buffer.position
                       > views[v].buffer.limit - views[v].buffer.position )
               => ~last'.ok /\ IsOverflow(last'.err)
       /\ last'.op \in {"put", "put_buf", "put_buffer"} => ~IsUnderflow(last'.err)]_vars

(* ------------------- SpecCtor: the constructors ------------------------ *)

InitCtor ==
    /\ bb = default
    /\ cap0 = 0
    /\ views = NoViews
    /\ origin = NoOrigin
    /\ ext = <<>>
    /\ last = NoCall
    /\ pc = "ctor"
    /\ written = <<>>
    /\ got = <<>>

\* a constructor was called with the cursor values given and ended as r says:
\* bb is the cursor of what it returned, views the view if it returned one
CtorStep(op, given, r, isView) ==
    /\ bb' = IF r.ok /\ isView THEN r.self.buffer ELSE r.self
    /\ views' = IF r.ok /\ isView THEN [v \in {"buffer"} |-> r.self] ELSE NoViews
    /\ last' = Call(op, "buffer", given, r, -1)
    /\ UNCHANGED <<cap0, origin, ext, pc, written, got>>

\* Buffer::new_(mark, pos, limit, cap) followed by init()
CtorBuffer == \E mark \in MarkArgs, pos \in Args, limit \in Args, cap \in Args :
    LET r0 == Buffer_new_(mark, pos, limit, cap)
    IN  CtorStep("Buffer::new_", <<mark, pos, limit, cap>>,
                 IF r0.ok THEN init(r0.self) ELSE r0, FALSE)

CtorByteBuffer == \E mark \in MarkArgs, pos \in Args, limit \in Args, cap \in Args :
    CtorStep("ByteBuffer::new_", <<mark, pos, limit, cap>>,
             ByteBuffer_new_(mark, pos, limit, cap), FALSE)

CtorNew == \E n \in 0..MaxCap : \E buf \in Bytes(n) :
           \E mark \in MarkArgs, pos \in Args, limit \in Args, cap \in Args, off \in 0..1 :
    CtorStep("new", <<mark, pos, limit, cap>>,
             CloneByteBuffer_new(buf, mark, pos, limit, cap, off), TRUE)

CtorNew2Call(cap, limit) ==
    CtorStep("new2", <<-1, 0, limit, cap>>, new2(cap, limit), TRUE)

CtorNew2 == \E cap \in Args, limit \in Args : CtorNew2Call(cap, limit)

CtorNew3 == \E n \in 0..MaxCap : \E buf \in Bytes(n) : \E off \in Args, len \in Args :
    CtorStep("new3", <<-1, off, off + len, Len(buf)>>, new3(buf, off, len), TRUE)

NextCtor ==
    \/ CtorBuffer
    \/ CtorByteBuffer
    \/ CtorNew
    \/ CtorNew2
    \/ CtorNew3

SpecCtor == InitCtor /\ [][NextCtor]_vars

\* C9: a constructor that returns, returns a cursor whose mark, position,
\* limit and capacity are the values given, and these obey mark = -1 or
\* 0 <= mark <= position, position <= limit <= capacity
C9_ConstructionFailsFast ==
    (last.op # "none" /\ last.ok) =>
       /\ bb = [mark |-> last.a[1], position |-> last.a[2],
                limit |-> last.a[3], cap |-> last.a[4]]
       /\ (bb.mark = -1 \/ (0 <= bb.mark /\ bb.mark <= bb.position))
       /\ bb.position <= bb.limit
       /\ bb.limit <= bb.cap

\* C12: new2(cap, limit) with 0 <= limit <= cap returns a view over exactly
\* cap bytes, all zero, with position 0, limit limit, mark -1, offset 0 and
\* capacity cap; it fails when cap < 0, limit < 0 or limit > cap
C12_New2Fresh ==
    [][last'.op = "new2" =>
         \A cap \in Args, limit \in Args :
            CtorNew2Call(cap, limit) =>
               IF 0 <= limit /\ limit <= cap
               THEN /\ last'.ok
                    /\ views'["buffer"].buffer =
                          [mark |-> -1, position |-> 0, limit |-> limit, cap |-> cap]
                    /\ views'["buffer"].offset = 0
                    /\ Len(views'["buffer"].hb) = cap
                    /\ \A j \in 1..cap : views'["buffer"].hb[j] = 0
               ELSE ~last'.ok]_vars

\* new2 has returned a view of MaxCap bytes with a limit between 0 and MaxCap
C12_Witness ==
    /\ last.op = "new2"
    /\ last.ok
    /\ views["buffer"].buffer.cap = MaxCap
    /\ Len(views["buffer"].hb) = MaxCap
    /\ views["buffer"].buffer.limit > 0
    /\ views["buffer"].buffer.limit < MaxCap

(* ---------------- SpecFlip: write, flip, read back --------------------- *)

\* new2(capacity, capacity), then put()s, then flip(), then get()s up to the
\* first one that fails
InitFlip ==
    /\ \E cap \in 0..(MaxCap + 1) :
          views = [v \in {"buffer"} |-> new2(cap, cap).self]
    /\ bb = default
    /\ cap0 = 0
    /\ origin = NoOrigin
    /\ ext = <<>>
    /\ last = NoCall
    /\ pc = "write"
    /\ written = <<>>
    /\ got = <<>>

FlipPut == \E x \in Byte :
    LET r == put(views["buffer"], x)
    IN  /\ pc = "write"
        /\ r.ok
        /\ views' = [views EXCEPT !["buffer"] = r.self]
        /\ written' = Append(written, x)
        /\ last' = Call("put", "buffer", <<x>>, r, -1)
        /\ UNCHANGED <<bb, cap0, origin, ext, pc, got>>

FlipFlip ==
    LET r == delegate(views["buffer"], flip(views["buffer"].buffer))
    IN  /\ pc = "write"
        /\ views' = [views EXCEPT !["buffer"] = r.self]
        /\ pc' = "flipped"
        /\ last' = Call("flip", "buffer", <<>>, r, -1)
        /\ UNCHANGED <<bb, cap0, origin, ext, written, got>>

FlipGet ==
    LET r == get(views["buffer"])
    IN  /\ pc \in {"flipped", "read"}
        /\ views' = [views EXCEPT !["buffer"] = r.self]
        /\ got' = IF r.ok THEN Append(got, r.ret) ELSE got
        /\ pc' = IF r.ok THEN "read" ELSE "failed"
        /\ last' = Call("get", "buffer", <<>>, r, r.ret)
        /\ UNCHANGED <<bb, cap0, origin, ext, written>>

NextFlip ==
    \/ FlipPut
    \/ FlipFlip
    \/ FlipGet

SpecFlip == InitFlip /\ [][NextFlip]_vars

\* C6: on new2(capacity, capacity), after n <= capacity put()s and a flip()
\* the position is 0 and the limit n, the next n get()s return the bytes
\* written in the order written, and the get() after them fails with
\* buffer-underflow
C6_FlipRoundTrip ==
    /\ pc = "flipped" =>
          /\ views["buffer"].buffer.position = 0
          /\ views["buffer"].buffer.limit = Len(written)
    /\ pc \in {"read", "failed"} =>
          /\ Len(got) <= Len(written)
          /\ got = SubSeq(written, 1, Len(got))
    /\ pc = "failed" =>
          /\ got = written
          /\ last.err = "buffer under flow!"

\* three bytes, not all the same, written, read back, and one get() too many
C6_Witness ==
    /\ pc = "failed"
    /\ Len(written) = MaxCap + 1
    /\ written[1] # written[2]
    /\ got = written

(* ------------- SpecScenario: writes after a slice was taken ------------ *)

\* the test test_buffer_slice: new2(10, 10), the puts of 0..5 through the
\* buffer, slice(), the puts of 10..12 through the slice, the puts of 20..23
\* through the buffer; each loop may also stop early
ScenarioCap == 10
FillBytes == <<0, 1, 2, 3, 4>>
SliceBytes == <<10, 11>>
ParentBytes == <<20, 21, 22>>

\* written is every byte put so far, through either view, in call order
InitScenario ==
    /\ views = [v \in {"buffer"} |-> new2(ScenarioCap, ScenarioCap).self]
    /\ bb = default
    /\ cap0 = 0
    /\ origin = NoOrigin
    /\ ext = <<>>
    /\ last = NoCall
    /\ pc = "fill"
    /\ written = <<>>
    /\ got = <<>>

\* view v puts byte x
ScenarioPutOn(v, x) ==
    /\ views' = [views EXCEPT ![v] = put(views[v], x).self]
    /\ written' = Append(written, x)
    /\ UNCHANGED <<bb, cap0, origin, ext, last, pc, got>>

ScenarioFill ==
    /\ pc = "fill"
    /\ Len(written) < Len(FillBytes)
    /\ ScenarioPutOn("buffer", FillBytes[Len(written) + 1])

ScenarioSlice ==
    LET r == slice(views["buffer"])
    IN  /\ pc = "fill"
        /\ views' = [v \in {"buffer", "slice"} |-> IF v = "slice" THEN r.ret ELSE r.self]
        /\ origin' = [origin EXCEPT !["slice"] = "buffer"]
        /\ pc' = "slice_put"
        /\ UNCHANGED <<bb, cap0, ext, last, written, got>>

ScenarioSlicePut ==
    /\ pc = "slice_put"
    /\ views["slice"].buffer.position < Len(SliceBytes)
    /\ ScenarioPutOn("slice", SliceBytes[views["slice"].buffer.position + 1])

ScenarioTurn ==
    /\ pc = "slice_put"
    /\ pc' = "parent_put"
    /\ got' = written
    /\ UNCHANGED <<bb, cap0, views, origin, ext, last, written>>

ScenarioParentPut ==
    /\ pc = "parent_put"
    /\ Len(written) - Len(got) < Len(ParentBytes)
    /\ ScenarioPutOn("buffer", ParentBytes[Len(written) - Len(got) + 1])

ScenarioEnd ==
    /\ pc = "parent_put"
    /\ pc' = "done"
    /\ UNCHANGED <<bb, cap0, views, origin, ext, last, written, got>>

NextScenario ==
    \/ ScenarioFill
    \/ ScenarioSlice
    \/ ScenarioSlicePut
    \/ ScenarioTurn
    \/ ScenarioParentPut
    \/ ScenarioEnd

SpecScenario == InitScenario /\ [][NextScenario]_vars

\* the one backing store holds x at index i (0-based): every view reads it there
BackingAt(i, x) == \A v \in Live : views[v].hb[i + 1] = x

\* C5: after the puts of 0,1,2,3,4 the position is 5; the slice then taken has
\* offset 5, limit 5 and capacity 5; the puts of 10,11 through the slice move
\* the slice's position to 2 and set the backing bytes 5 and 6 to 10 and 11;
\* the puts of 20,21,22 through the parent then move its position to 8 and
\* overwrite them: the backing bytes end as [0,1,2,3,4,20,21,22,0,0]
C5_WriteAfterSlice ==
    /\ written = FillBytes =>
          views["buffer"].buffer.position = 5
    /\ (written = FillBytes /\ pc = "slice_put") =>
          /\ views["slice"].offset = 5
          /\ views["slice"].buffer.limit = 5
          /\ views["slice"].buffer.cap = 5
    /\ written = FillBytes \o SliceBytes =>
          /\ views["slice"].buffer.position = 2
          /\ BackingAt(5, 10)
          /\ BackingAt(6, 11)
    /\ (written = FillBytes \o SliceBytes \o ParentBytes /\ pc = "done") =>
          /\ views["buffer"].buffer.position = 8
          /\ \A v \in Live : views[v].hb = <<0, 1, 2, 3, 4, 20, 21, 22, 0, 0>>

(* ------------- SpecNew3: a view made from the caller's bytes ----------- *)

\* ext is the caller's byte array; new3 borrows it for the call only
InitNew3 ==
    /\ \E n \in 0..MaxCap : ext \in Bytes(n)
    /\ views = NoViews
    /\ origin = NoOrigin
    /\ bb = default
    /\ cap0 = 0
    /\ last = NoCall
    /\ pc = "caller"
    /\ written = <<>>
    /\ got = <<>>

\* let buffer = CloneByteBuffer::new3(&ext, off, len)
New3(off, len) ==
    LET r == new3(ext, off, len)
    IN  /\ pc = "caller"
        /\ views' = IF r.ok THEN [v \in {"buffer"} |-> r.self] ELSE NoViews
        /\ pc' = IF r.ok THEN "made" ELSE "failed"
        /\ last' = Call("new3", "buffer", <<off, len>>, r, -1)
        /\ UNCHANGED <<bb, cap0, origin, ext, written, got>>

\* ext[i] = x by the caller, after new3 has returned
CallerWrite(i, x) ==
    /\ pc = "made"
    /\ i < Len(ext)
    /\ ext' = [ext EXCEPT ![i + 1] = x]
    /\ last' = Call("write", "ext", <<i, x>>, Ok(default, 0), -1)
    /\ UNCHANGED <<bb, cap0, views, origin, pc, written, got>>

\* buffer.put_i(x, i)
New3PutI(x, i) == pc = "made" /\ PutI("buffer", x, i)

NextNew3 ==
    \/ \E off \in Args, len \in Args : New3(off, len)
    \/ \E i \in 0..MaxCap, x \in Byte : CallerWrite(i, x)
    \/ \E x \in Byte, i \in Args : New3PutI(x, i)

SpecNew3 == InitNew3 /\ [][NextNew3]_vars

\* C11: new3(buf, off, len) fails when off < 0, len < 0 or off + len > len(buf)
\* and otherwise returns a view with position off, limit off + len, capacity
\* len(buf), mark -1 and offset 0 over the caller's bytes themselves: a byte
\* the caller then writes is read through the view, and a byte put through
\* the view is in the caller's bytes
C11_New3References ==
    [][/\ \A off \in Args, len \in Args :
            New3(off, len) =>
               IF off < 0 \/ len < 0 \/ off + len > Len(ext)
               THEN ~last'.ok
               ELSE /\ last'.ok
                    /\ views'["buffer"].buffer =
                          [mark |-> -1, position |-> off, limit |-> off + len,
                           cap |-> Len(ext)]
                    /\ views'["buffer"].offset = 0
       /\ \A i \in 0..MaxCap, x \in Byte :
            CallerWrite(i, x) =>
               LET r == get_i(views'["buffer"], i)
               IN  r.ok => r.ret = x
       /\ \A x \in Byte, i \in Args :
            (New3PutI(x, i) /\ last'.ok) => ext'[i + 1] = x]_vars

(* --------- SpecPutBuffer: put_buffer between a view and its slice ------ *)

InitPutBuffer == InitView /\ ext = <<>> /\ pc = "put_buffer"

\* position_, flip and put on either view, one slice() of the buffer, and
\* put_buffer from either view into the other
NextPutBuffer ==
    \/ \E v \in Live : \E n \in Args : Position(v, n)
    \/ \E v \in Live : Flip(v)
    \/ \E v \in Live : \E x \in Byte : Put(v, x)
    \/ "slice" \notin Live /\ Slice("buffer")
    \/ \E v \in Live : \E w \in Live \ {v} : PutBuffer(v, w)

SpecPutBuffer == InitPutBuffer /\ [][NextPutBuffer]_vars

\* C13: v.put_buffer(w) with n = w.remaining(): when n > v.remaining() it
\* fails with buffer-overflow and leaves both views as they were; otherwise
\* the n bytes of w from its position on are, in order, the bytes of v from
\* its position on, both positions have advanced by n, and when n = 0 both
\* views are as they were
C13_PutBuffer ==
    [][last'.op = "put_buffer" =>
       \A v \in Live : \A w \in Live \ {v} :
         PutBuffer(v, w) =>
            LET n == views[w].buffer.limit - views[w].buffer.position
                pv == views[v].buffer.position
                pw == views[w].buffer.position
            IN  IF n > views[v].buffer.limit - pv
                THEN /\ ~last'.ok
                     /\ last'.err = "buffer overflow"
                     /\ views' = views
                ELSE /\ last'.ok
                     /\ \A j \in 0..(n - 1) :
                           ByteAt(views'[v], pv + j) = ByteAt(views[w], pw + j)
                     /\ views'[v].buffer.position = pv + n
                     /\ views'[w].buffer.position = pw + n
                     /\ n = 0 => views' = views]_vars

\* the buffer has taken every remaining byte of its slice, and the two now
\* hold different bytes
C13_Witness ==
    /\ last.op = "put_buffer"
    /\ last.ok
    /\ last.v = "buffer"
    /\ "slice" \in Live
    /\ views["slice"].buffer.position = views["slice"].buffer.limit
    /\ views["slice"].buffer.position > 0
    /\ views["buffer"].buffer.position > 0
    /\ views["buffer"].hb # views["slice"].hb

(* ------ SpecIndex: the index allocation and index checks of Buffer ----- *)

\* the nb arguments: the values of Args and the two ends of i32
NbArgs == Args \cup {MinI32, MaxI32}

\* every ByteBuffer that ByteBuffer::new_ returns in a state obeying the
\* cursor invariant
InitIndex ==
    /\ \E mark \in MarkArgs, pos \in Args, limit \in Args, cap \in 0..MaxCap :
          LET r == ByteBuffer_new_(mark, pos, limit, cap)
          IN  /\ r.ok
              /\ CursorInv(r.self)
              /\ bb = r.self
              /\ cap0 = cap
    /\ views = NoViews
    /\ origin = NoOrigin
    /\ ext = <<>>
    /\ last = NoCall
    /\ pc = "index"
    /\ written = <<>>
    /\ got = <<>>

\* a call on a cursor that obeys the invariant; ret is what it returned
IndexStep(op, a, r) ==
    /\ CursorInv(bb)
    /\ bb' = r.self
    /\ last' = Call(op, "bb", a, r, r.ret)
    /\ UNCHANGED <<cap0, views, origin, ext, pc, written, got>>

IndexGet == IndexStep("next_get_index", <<>>, next_get_index(bb))
IndexPut == IndexStep("next_put_index", <<>>, next_put_index(bb))
IndexGetNb(nb) == IndexStep("next_get_index_nb", <<nb>>, next_get_index_nb(bb, nb))
IndexPutNb(nb) == IndexStep("next_put_index_nb", <<nb>>, next_put_index_nb(bb, nb))
IndexCheck(i) == IndexStep("check_index", <<i>>, check_index(bb, i))
IndexCheckNb(i, nb) == IndexStep("check_index_nb", <<i, nb>>, check_index_nb(bb, i, nb))

NextIndex ==
    \/ IndexGet
    \/ IndexPut
    \/ \E nb \in NbArgs : IndexGetNb(nb)
    \/ \E nb \in NbArgs : IndexPutNb(nb)
    \/ \E i \in Args : IndexCheck(i)
    \/ \E i \in Args, nb \in Args : IndexCheckNb(i, nb)

SpecIndex == InitIndex /\ [][NextIndex]_vars

\* C19: from a cursor that obeys the invariant, after next_get_index(),
\* next_put_index(), next_get_index_nb(n) and next_put_index_nb(n), returned
\* or failed, for every i32 n, the cursor obeys the invariant; the n-variants
\* return exactly when limit - position >= n, and then return the old position
\* and add n to it
C19_IndexAllocation ==
    [][/\ (IndexGet \/ IndexPut) => CursorInv(bb')
       /\ \A n \in NbArgs :
            (IndexGetNb(n) \/ IndexPutNb(n)) =>
               /\ CursorInv(bb')
               /\ last'.ok <=> (bb.limit - bb.position >= n)
               /\ last'.ok => /\ last'.ret = bb.position
                              /\ bb'.position = bb.position + n]_vars

\* C20: check_index_nb(i, nb) with nb >= 0 on a cursor of limit L returns i
\* when 0 <= i and i + nb <= L, a range that ends at the limit included, and
\* fails with index-out-of-bounds otherwise
C20_CheckIndexNb ==
    [][\A i \in Args, nb \in Args :
         (nb >= 0 /\ IndexCheckNb(i, nb)) =>
            IF 0 <= i /\ i + nb <= bb.limit
            THEN last'.ok /\ last'.ret = i
            ELSE ~last'.ok /\ last'.err = "index out of bound"]_vars

(* ------------- SpecBounds: check_bounds over the i32 range ------------- *)

\* i32 arguments: the values of Args and the values at the two ends of i32
I32Args == Args \cup {MinI32, MinI32 + 1, MaxI32 - 1, MaxI32}

InitBounds ==
    /\ bb = default
    /\ cap0 = 0
    /\ views = NoViews
    /\ origin = NoOrigin
    /\ ext = <<>>
    /\ last = NoCall
    /\ pc = "bounds"
    /\ written = <<>>
    /\ got = <<>>

\* Buffer::check_bounds(off, len, size); got keeps the three arguments, also
\* of a call that panics
CheckBounds(off, len, size) ==
    /\ got' = <<off, len, size>>
    /\ last' = Call("check_bounds", "none", <<>>, check_bounds(off, len, size), -1)
    /\ UNCHANGED <<bb, cap0, views, origin, ext, pc, written>>

NextBounds ==
    \E off \in I32Args, len \in I32Args, size \in I32Args :
       size >= 0 /\ CheckBounds(off, len, size)

SpecBounds == InitBounds /\ [][NextBounds]_vars

\* C21: check_bounds(off, len, size) with i32 arguments and size >= 0 returns
\* exactly when off >= 0, len >= 0 and off + len, as a sum of integers that
\* does not wrap, is at most size; otherwise it fails, also when off + len is
\* above i32::MAX
C21_CheckBoundsOverflowSafe ==
    last.op = "check_bounds" =>
       ( last.ok <=> /\ got[1] >= 0
                     /\ got[2] >= 0
                     /\ got[1] <= got[3]
                     /\ got[2] <= got[3] - got[1] )

\* check_bounds has refused i32::MAX + i32::MAX, which wraps to -2, for size 0
C21_Witness ==
    /\ last.op = "check_bounds"
    /\ ~last.ok
    /\ got = <<MaxI32, MaxI32, 0>>

(* ------------- SpecMark: mark_, reset and what lies between ------------ *)

\* got and written each hold the position of a mark_() call while the calls
\* since have kept to the protocol, and are empty otherwise
InitMark ==
    /\ \E mark \in MarkArgs, pos \in Args, limit \in Args, cap \in 0..MaxCap :
          LET r == ByteBuffer_new_(mark, pos, limit, cap)
          IN  /\ r.ok
              /\ CursorInv(r.self)
              /\ bb = r.self
              /\ cap0 = cap
    /\ views = NoViews
    /\ origin = NoOrigin
    /\ ext = <<>>
    /\ last = NoCall
    /\ pc = "mark"
    /\ written = <<>>
    /\ got = <<>>

\* the position p of a mark_() call that is still to be restored, after the
\* call op has left the cursor b: a mark_() starts it (every mark_() when
\* latest, the first one only when not); a call in ends, or one that leaves
\* the position or the limit below p, ends it
Track(h, op, b, ends, latest) ==
    IF op = "mark_" /\ (latest \/ h = <<>>) THEN <<b.position>>
    ELSE IF h = <<>> THEN <<>>
    ELSE IF op \in ends \/ b.position < h[1] \/ b.limit < h[1] THEN <<>>
    ELSE h

MarkStep(op, a, r) ==
    /\ bb' = r.self
    /\ last' = Call(op, "bb", a, r, -1)
    /\ got' = Track(got, op, r.self, {"clear", "flip", "rewind"}, FALSE)
    /\ written' = Track(written, op, r.self,
                        {"clear", "flip", "rewind", "truncate"}, TRUE)
    /\ UNCHANGED <<cap0, views, origin, ext, pc>>

MarkReset == MarkStep("reset", <<>>, reset(bb))
MarkLimit == \E n \in Args : MarkStep("limit_", <<n>>, limit_(bb, n))
MarkPosition == \E n \in Args : MarkStep("position_", <<n>>, position_(bb, n))
MarkMark == MarkStep("mark_", <<>>, mark_(bb))
MarkClear == MarkStep("clear", <<>>, clear(bb))
MarkFlip == MarkStep("flip", <<>>, flip(bb))
MarkRewind == MarkStep("rewind", <<>>, rewind(bb))
MarkTruncate == MarkStep("truncate", <<>>, Buffer_truncate(bb))

NextMark ==
    \/ MarkReset
    \/ MarkLimit
    \/ MarkPosition
    \/ MarkMark
    \/ MarkClear
    \/ MarkFlip
    \/ MarkRewind
    \/ MarkTruncate

SpecMark == InitMark /\ [][NextMark]_vars

\* mark_() returns and sets the mark to the position; reset() fails with
\* invalid-mark exactly when the mark is below 0, and otherwise sets the
\* position to the mark and leaves mark, limit and capacity as they were
MarkResetCalls ==
    /\ MarkMark => last'.ok /\ bb' = [bb EXCEPT !.mark = bb.position]
    /\ MarkReset =>
          IF bb.mark < 0
          THEN ~last'.ok /\ last'.err = "invalid mark!"
          ELSE last'.ok /\ bb' = [bb EXCEPT !.position = bb.mark]

InitAccess == InitView /\ ext = <<>> /\ pc = "access"

\* limit_, position_, get, put, get_i and put_i on either view, and one
\* slice() of the buffer
NextAccess ==
    \/ \E v \in Live : \E n \in Args : Limit(v, n)
    \/ \E v \in Live : \E n \in Args : Position(v, n)
    \/ \E v \in Live : ByteCall(v)
    \/ "slice" \notin Live /\ Slice("buffer")

SpecAccess == InitAccess /\ [][NextAccess]_vars

\* C25: get() and put(x) return exactly when position < limit, and then read
\* or write the byte at view-local index position (offset + position in the
\* vector) and add 1 to the position; at position = limit they fail, get with
\* buffer-underflow and put with buffer-overflow, also when limit < capacity,
\* and change nothing
C25_WindowBoundedByLimit ==
    [][last'.op \in {"get", "put"} =>
         \A v \in Live :
            LET s == views[v]
                p == s.buffer.position
            IN  /\ Get(v) =>
                      IF p < s.buffer.limit
                      THEN /\ last'.ok
                           /\ last'.ret = s.hb[s.offset + p + 1]
                           /\ views'[v] = [s EXCEPT !.buffer.position = p + 1]
                      ELSE /\ ~last'.ok
                           /\ IsUnderflow(last'.err)
                           /\ views'[v] = s
                /\ \A x \in Byte :
                      Put(v, x) =>
                         IF p < s.buffer.limit
                         THEN /\ last'.ok
                              /\ views'[v] = [s EXCEPT !.buffer.position = p + 1,
                                                       !.hb[s.offset + p + 1] = x]
                         ELSE /\ ~last'.ok
                              /\ IsOverflow(last'.err)
                              /\ views'[v] = s]_vars

\* a put refused at a limit that is above 0 and below the capacity
C25_Witness ==
    /\ last.op = "put"
    /\ ~last.ok
    /\ last.v = "buffer"
    /\ views["buffer"].buffer.position = views["buffer"].buffer.limit
    /\ views["buffer"].buffer.limit > 0
    /\ views["buffer"].buffer.limit < views["buffer"].buffer.cap

\* C26: get_i(i) and put_i(x, i) return exactly when 0 <= i < limit and fail
\* with index-out-of-bounds otherwise; get_i returns the byte at offset + i of
\* the vector and changes nothing, put_i changes that byte alone, and a
\* get_i(i) right after a put_i(x, i) on the same view returns x
C26_PositionalAccess ==
    [][last'.op \in {"get_i", "put_i"} =>
         \A v \in {last'.v} : \A i \in Args :
            LET s == views[v]
                inside == 0 <= i /\ i < s.buffer.limit
            IN  /\ GetI(v, i) =>
                      /\ views'[v] = s
                      /\ IF inside
                         THEN /\ last'.ok
                              /\ last'.ret = s.hb[s.offset + i + 1]
                              /\ (last.op = "put_i" /\ last.ok /\ last.v = v
                                    /\ last.a[2] = i) => last'.ret = last.a[1]
                         ELSE ~last'.ok /\ last'.err = "index out of bound"
                /\ \A x \in Byte :
                      PutI(v, x, i) =>
                         IF inside
                         THEN /\ last'.ok
                              /\ views'[v] = [s EXCEPT !.hb[s.offset + i + 1] = x]
                         ELSE /\ ~last'.ok
                              /\ last'.err = "index out of bound"
                              /\ views'[v] = s]_vars

\* get_i(0) on a slice of offset 1 has returned the second byte of its vector
\* after put_i(1, 0) had written it
C26_Witness ==
    /\ last.op = "get_i"
    /\ last.ok
    /\ last.v = "slice"
    /\ last.a = <<0>>
    /\ last.ret = 1
    /\ views["slice"].offset = 1
    /\ views["slice"].hb = <<0, 1>>
    /\ views["buffer"].hb = <<0, 0>>

(* ---- SpecReach: every view reachable from new2 or new3, every call ---- *)

\* the views in scope at one time
MaxViews == 2

\* the length of the caller's vector of get_buf and put_buf, and the offsets
\* and lengths passed with it
ReachLen == 1
ReachArgs == 0..ReachLen

InitReach == InitView /\ ext \in Bytes(ReachLen) /\ pc = "views"

\* let dup = p.duplicate(): duplicate(self) takes its receiver by value, so p
\* is moved into the call and only dup is in scope after it
DuplicateMove(p) ==
    /\ "dup" \notin Live
    /\ views' = [v \in (Live \ {p}) \cup {"dup"} |->
                    IF v = "dup" THEN duplicate(views[p]) ELSE views[v]]
    /\ origin' = [origin EXCEPT !["dup"] = p]
    /\ last' = Log(Call("duplicate", p, <<>>, Ok(views[p], 0), -1))
    /\ UNCHANGED <<bb, cap0, ext, pc, written, got>>

\* a slice taken while there is room for one more view in scope
SliceInScope(p) == Cardinality(Live \cup {"slice"}) <= MaxViews /\ Slice(p)

NextReach ==
    \/ \E v \in Live : CursorCall(v)
    \/ \E v \in Live : ByteCall(v)
    \/ \E v \in Live : \E off \in ReachArgs, len \in ReachArgs : GetBuf(v, off, len)
    \/ \E v \in Live : \E off \in ReachArgs, len \in ReachArgs : PutBuf(v, off, len)
    \/ \E v \in Live : \E w \in Live \ {v} : PutBuffer(v, w)
    \/ \E p \in Live : SliceInScope(p)
    \/ \E p \in Live : DuplicateMove(p)

SpecReach == InitReach /\ [][NextReach]_vars


\* view s lies inside its byte vector
InsideStore(s) == s.offset >= 0 /\ s.offset + s.buffer.cap <= Len(s.hb)

\* the call ended on an index outside the byte vector
VecFault(r) == ~r.ok /\ r.err = "index out of bounds: Vec"

\* no byte call that can be made on view v in this state ends on an index
\* outside a byte vector
NoVecFault(v) ==
    /\ ~VecFault(get(views[v]))
    /\ \A i \in Args : ~VecFault(get_i(views[v], i))
    /\ \A x \in Byte : ~VecFault(put(views[v], x))
    /\ \A x \in Byte, i \in Args : ~VecFault(put_i(views[v], x, i))
    /\ \A off \in ReachArgs, len \in ReachArgs :
          /\ ~VecFault(get_buf(views[v], ext, off, len))
          /\ ~VecFault(put_buf(views[v], ext, off, len))
    /\ \A w \in Live \ {v} : ~VecFault(put_buffer(views[v], views[w]))

\* the step put a new view under the name v
Rebound(v) == v = "slice" /\ \E p \in Live : Slice(p)

\* C28: every view reachable from new2 or new3 by slice(), duplicate(), the
\* cursor calls and the byte calls has offset >= 0 and offset + capacity <=
\* len(byte vector), no call changes a view's offset or the length of its
\* vector, and no byte call on it ends on an index outside a byte vector
C28_IndicesInsideStore ==
    /\ [](\A v \in Live : InsideStore(views[v]) /\ NoVecFault(v))
    /\ [][\A v \in Live \cap DOMAIN views' :
             \/ /\ views'[v].offset = views[v].offset
                /\ Len(views'[v].hb) = Len(views[v].hb)
             \/ Rebound(v)]_vars

\* a slice of a slice, at offset 2 of a vector of two bytes, beside a duplicate
\* whose cursor has moved
C28_Witness ==
    /\ Live = {"dup", "slice"}
    /\ views["slice"].offset = 2
    /\ views["slice"].buffer.cap = 0
    /\ Len(views["slice"].hb) = 2
    /\ views["dup"].buffer.position = 1
    /\ views["dup"].buffer.limit = 1
    /\ views["dup"].hb = <<1, 1>>

====
